---- MODULE Spec2Model ----
(***************************************************************************)
(* Model of the BLE / ECG repository.                                      *)
(*                                                                         *)
(*   DemoSpec  ecg_plot_demo.py: ECGSimulator thread (producer) appending  *)
(*             to the ECGPlotter deques while the animation callback       *)
(*             (update_plot / calculate_heart_rate) runs on the main       *)
(*             thread.  Neither side takes a lock, so every statement      *)
(*             that reads or writes a deque is a step of its own.          *)
(*   Spec      main2.py: the BLE thread (run_ble_async /                   *)
(*             BLEReceiver.connect_and_receive), the notification          *)
(*             callback, the main thread (main, on_close) and the          *)
(*             animation callback update_plot.                             *)
(***************************************************************************)
EXTENDS Integers, Sequences, FiniteSets, TLC

VARIABLES
    \* ---- ecg_plot_demo.py ----
    maxlen,             \* capacity of both ECGPlotter deques
    plotter_ecg_data,   \* ECGPlotter.ecg_data
    plotter_time_data,  \* ECGPlotter.time_data
    running,            \* ECGSimulator.running
    sim_pc,             \* position of the simulate_data thread
    sim_value,          \* simulate_data: ecg_value
    sim_time,           \* simulate_data: current_time
    clock,              \* time.time() - start_time, in sample intervals
    hist,               \* history: every <<value, timestamp>> handed to add_data_point
    demo_pc,            \* position of ecg_plot_demo.main
    tick_pc,            \* position inside ECGPlotter.update_plot
    arg_x,              \* update_plot: list(self.time_data), first argument of set_data
    line_x,             \* Line2D x data
    line_y,             \* Line2D y data
    xlim,               \* axes x limits
    data_array,         \* calculate_heart_rate: data_array
    time_array,         \* calculate_heart_rate: time_array
    heart_rate,         \* update_plot: what calculate_heart_rate returned
    heart_rate_text,    \* text of the heart rate box
    tick_raised,        \* the animation callback raised
    \* ---- main2.py ----
    stop_event,         \* threading.Event: its flag
    ble_receiver,       \* the module global ble_receiver
    ecg_data,           \* the module global deque
    link_pc,            \* position of the BLE thread in connect_and_receive
    devices,            \* scan_for_esp32: the list discover() returned
    device,             \* BLEReceiver.device
    client,             \* BLEReceiver.client
    connected,          \* BLEReceiver.connected
    is_connected,       \* BleakClient.is_connected (the transport)
    notifying,          \* the transport delivers notifications
    retval,             \* what connect_and_receive returned
    failed,             \* history: the session took a failure path
    scan_matched,       \* history: how many matching records discovery returned
    link_hung,          \* the BLE thread is inside a transport call that never returns
    calls,              \* history: how often each transport call was issued
    pending,            \* a notification the transport has delivered, not yet handled
    handler_raised,     \* history: notification_handler let an exception out
    main_pc,            \* position of main2.main
    stop_sets,          \* history: how often stop_event.set() was called
    render_pc,          \* position inside main2.update_plot
    line_ydata,         \* Line2D y data of the BLE plot
    ylim,               \* y limits, times 10
    title,              \* axes title
    \* ---- main.py ----
    receiver_pc,            \* position of main.py's connect_and_receive
    receiver_devices,       \* scan_for_esp32: the list discover() returned
    receiver_device,        \* BLEReceiver.device
    receiver_client,        \* BLEReceiver.client
    receiver_is_connected,  \* BleakClient.is_connected (the transport)
    receiver_notifying,     \* the transport delivers notifications
    receiver_calls,         \* history: how often each transport call was issued
    receiver_result,        \* how connect_and_receive ended for its caller
    receiver_failed,        \* history: the session took a failure path
    receiver_polling,       \* history: the read fallback was entered
    receiver_output,        \* what notification_handler printed last
    receiver_interrupted    \* history: Ctrl-C was pressed

demoVars == <<maxlen, plotter_ecg_data, plotter_time_data, running, sim_pc,
              sim_value, sim_time, clock, hist, demo_pc, tick_pc, arg_x,
              line_x, line_y, xlim, data_array, time_array, heart_rate,
              heart_rate_text, tick_raised>>

linkVars == <<stop_event, ble_receiver, ecg_data, link_pc, devices, device, client,
              connected, is_connected, notifying, retval, failed, scan_matched,
              link_hung, calls, pending, handler_raised, main_pc,
              stop_sets, render_pc, line_ydata, ylim, title>>

receiverVars == <<receiver_pc, receiver_devices, receiver_device, receiver_client,
                  receiver_is_connected, receiver_notifying, receiver_calls,
                  receiver_result, receiver_failed, receiver_polling,
                  receiver_output, receiver_interrupted>>

vars == <<demoVars, linkVars, receiverVars>>

\* ------------------------------------------------------------- bounds
MaxCap == 2          \* capacities explored: 1..MaxCap
MaxAppends == 3      \* add_data_point calls explored
MaxValue == 1        \* sample values explored: 0..MaxValue
MinSamples == 2      \* the minimum sample count of calculate_heart_rate, scaled

MaxDevices == 2      \* records a discovery returns: 0..MaxDevices
MAX_POINTS == 2      \* capacity of the BLE plot's deque, scaled

\* ---------------------------------------------------- program constants
SAMPLING_RATE == 250
TIME_WINDOW == 4

Values == 0..MaxValue

\* ------------------------------------------------------------- helpers
Max(a, b) == IF a >= b THEN a ELSE b

RECURSIVE SeqSum(_)
SeqSum(s) ==
    IF s = <<>> THEN 0
    ELSE IF Len(s) = 1 THEN s[1]
    ELSE LET h == Len(s) \div 2
         IN  SeqSum(SubSeq(s, 1, h)) + SeqSum(SubSeq(s, h + 1, Len(s)))

RECURSIVE SeqMax(_)
SeqMax(s) == IF Len(s) = 1 THEN s[1] ELSE Max(s[1], SeqMax(Tail(s)))

RECURSIVE SeqMin(_)
SeqMin(s) == IF Len(s) = 1 THEN s[1]
             ELSE LET m == SeqMin(Tail(s)) IN IF s[1] <= m THEN s[1] ELSE m

\* collections.deque(maxlen=n).append(x): a full deque drops its oldest item.
DequeAppendKeepAll(d, x, n) == Append(d, x)

DequeAppendDropNew(d, x, n) == IF Len(d) < n THEN Append(d, x) ELSE d

DequeAppendEvictTwo(d, x, n) ==
    IF Len(d) < n THEN Append(d, x) ELSE Append(Tail(Tail(d)), x)

DequeAppend(d, x, n) ==
    IF Len(d) < n THEN Append(d, x) ELSE Append(Tail(d), x)

\* ------------------------------------------------- ecg_plot_demo.py
Squares(s) == [i \in 1..Len(s) |-> s[i] * s[i]]

\* data_array[i] > np.mean(data_array) + 0.5 * np.std(data_array), in integers:
\* with n = len, S = sum, Q = sum of squares, std = sqrt(n*Q - S*S) / n.
AboveMeanPlusStd(data, x) ==
    LET n == Len(data)
        d == n * x - SeqSum(data)
    IN  d > 0 /\ d * d > n * SeqSum(Squares(data)) - SeqSum(data) * SeqSum(data)

AboveThreshold(data, x) ==
    LET n == Len(data)
        d == n * x - SeqSum(data)
    IN  d > 0 /\ 4 * d * d > n * SeqSum(Squares(data)) - SeqSum(data) * SeqSum(data)

AtOrAboveThreshold(data, i) ==
    LET n == Len(data)
        d == n * data[i] - SeqSum(data)
    IN  d >= 0 /\ 4 * d * d >= n * SeqSum(Squares(data)) - SeqSum(data) * SeqSum(data)

IsPeak(data, i) ==
    /\ AboveThreshold(data, data[i])
    /\ data[i] > data[i - 1]
    /\ data[i] > data[i + 1]

\* the indices the loop `for i in range(1, len(data_array) - 1)` keeps, 1-based
PeakIndices(data) == {i \in 2..(Len(data) - 1) : IsPeak(data, i)}

\* the timestamps appended to `peaks` for the indices lo..hi, in loop order
RECURSIVE PeaksFrom(_, _, _, _)
PeaksFrom(data, times, lo, hi) ==
    IF lo > hi THEN <<>>
    ELSE IF lo = hi THEN (IF IsPeak(data, lo) THEN <<times[lo]>> ELSE <<>>)
    ELSE LET mid == (lo + hi) \div 2
         IN  PeaksFrom(data, times, lo, mid) \o PeaksFrom(data, times, mid + 1, hi)

NotCalled == [kind |-> "unset", bpm |-> 0]
NoRate == [kind |-> "None", bpm |-> 0]
Raised == [kind |-> "raise", bpm |-> 0]

HeartRateRoundedUp(data, times) ==
    IF \E i \in PeakIndices(data) : i > Len(times) THEN Raised
    ELSE LET peaks == PeaksFrom(data, times, 2, Len(data) - 1)
             k == Len(peaks)
         IN  IF k >= 2
             THEN LET span == peaks[k] - peaks[1]
                      num == 60 * SAMPLING_RATE * (k - 1)
                  IN  IF span = 0 THEN Raised
                      ELSE [kind |-> "bpm", bpm |-> (num + span - 1) \div span]
             ELSE NoRate

\* ECGPlotter.calculate_heart_rate on the two copies it has taken.  Timestamps
\* are in sample intervals (1 / SAMPLING_RATE s).  A zero mean interval makes
\* 60.0 / avg_interval infinite and int() of it raises.
HeartRateOf(data, times) ==
    IF \E i \in PeakIndices(data) : i > Len(times) THEN Raised
    ELSE LET peaks == PeaksFrom(data, times, 2, Len(data) - 1)
             k == Len(peaks)
         IN  IF k >= 2
             THEN LET span == peaks[k] - peaks[1]
                      num == 60 * SAMPLING_RATE * (k - 1)
                  IN  IF span = 0 THEN Raised
                      ELSE IF span > 0 THEN [kind |-> "bpm", bpm |-> num \div span]
                      ELSE [kind |-> "bpm", bpm |-> -(num \div (-span))]
             ELSE NoRate

\* calculate_heart_rate called with nothing appending meanwhile; `minimum`
\* is the sample count of its first test
CalculateWithoutMinimum(ecg, times, minimum) == HeartRateOf(ecg, times)

CalculateHeartRate(ecg, times, minimum) ==
    IF Len(ecg) < minimum THEN NoRate ELSE HeartRateOf(ecg, times)

\* update_plot: `if heart_rate:` picks the text of the heart rate box
HeartRateText(hr) ==
    IF hr.kind = "bpm" /\ hr.bpm # 0 THEN <<"BPM", hr.bpm>> ELSE <<"Calculating">>

InitDemo ==
    /\ maxlen \in 1..MaxCap
    /\ plotter_ecg_data = <<>>
    /\ plotter_time_data = <<>>
    /\ running = FALSE
    /\ sim_pc = "not_started"
    /\ sim_value = 0
    /\ sim_time = 0
    /\ clock = 0
    /\ hist = <<>>
    /\ demo_pc = "start"
    /\ tick_pc = "idle"
    /\ arg_x = <<>>
    /\ line_x = <<>>
    /\ line_y = <<>>
    /\ xlim = <<0, TIME_WINDOW * SAMPLING_RATE>>
    /\ data_array = <<>>
    /\ time_array = <<>>
    /\ heart_rate = NotCalled
    /\ heart_rate_text = <<"--">>
    /\ tick_raised = FALSE

simVars == <<sim_pc, sim_value, sim_time, clock, hist>>
bufVars == <<plotter_ecg_data, plotter_time_data>>
tickVars == <<tick_pc, arg_x, line_x, line_y, xlim, data_array, time_array,
              heart_rate, heart_rate_text, tick_raised>>

\* ECGSimulator.start
SimulatorStart ==
    /\ demo_pc = "start"
    /\ running' = TRUE
    /\ sim_pc' = "while"
    /\ demo_pc' = "show"
    /\ UNCHANGED <<linkVars, receiverVars>>
    /\ UNCHANGED <<maxlen, bufVars, sim_value, sim_time, clock, hist, tickVars>>

\* simulate_data: `while self.running:` then current_time and ecg_value
SimWhile ==
    /\ sim_pc = "while"
    /\ IF running
       THEN /\ Len(hist) < MaxAppends
            /\ \E v \in Values : sim_value' = v
            /\ sim_time' = clock
            /\ sim_pc' = "append_ecg"
       ELSE /\ sim_pc' = "exited"
            /\ UNCHANGED <<sim_value, sim_time>>
    /\ UNCHANGED <<linkVars, receiverVars>>
    /\ UNCHANGED <<maxlen, bufVars, running, clock, hist, demo_pc, tickVars>>

\* add_data_point: self.ecg_data.append(value)
AddEcg ==
    /\ sim_pc = "append_ecg"
    /\ plotter_ecg_data' = DequeAppend(plotter_ecg_data, sim_value, maxlen)
    /\ hist' = Append(hist, <<sim_value, sim_time>>)
    /\ sim_pc' = "append_time"
    /\ UNCHANGED <<linkVars, receiverVars>>
    /\ UNCHANGED <<maxlen, plotter_time_data, running, sim_value, sim_time, clock,
                   demo_pc, tickVars>>

\* add_data_point: self.time_data.append(timestamp)
AddTime ==
    /\ sim_pc = "append_time"
    /\ plotter_time_data' = DequeAppend(plotter_time_data, sim_time, maxlen)
    /\ sim_pc' = "sleep"
    /\ UNCHANGED <<linkVars, receiverVars>>
    /\ UNCHANGED <<maxlen, plotter_ecg_data, running, sim_value, sim_time, clock,
                   hist, demo_pc, tickVars>>

\* simulate_data: time.sleep(sample_interval); the clock may or may not have
\* moved to a new reading when the next sample is taken.
SimSleep ==
    /\ sim_pc = "sleep"
    /\ \E d \in 0..1 : clock' = clock + d
    /\ sim_pc' = "while"
    /\ UNCHANGED <<linkVars, receiverVars>>
    /\ UNCHANGED <<maxlen, bufVars, running, sim_value, sim_time, hist, demo_pc,
                   tickVars>>

\* update_plot: `if len(self.ecg_data) > 1:`
TickStart ==
    /\ demo_pc = "show"
    /\ tick_pc = "idle"
    /\ tick_pc' = IF Len(plotter_ecg_data) > 1 THEN "copy_time" ELSE "idle"
    /\ data_array' = <<>>
    /\ time_array' = <<>>
    /\ arg_x' = <<>>
    /\ UNCHANGED <<linkVars, receiverVars>>
    /\ UNCHANGED <<maxlen, bufVars, running, simVars, demo_pc, line_x, line_y, xlim,
                   heart_rate, heart_rate_text, tick_raised>>

\* update_plot: list(self.time_data), the first argument of set_data
TickCopyTime ==
    /\ tick_pc = "copy_time"
    /\ arg_x' = plotter_time_data
    /\ tick_pc' = "copy_ecg"
    /\ UNCHANGED <<linkVars, receiverVars>>
    /\ UNCHANGED <<maxlen, bufVars, running, simVars, demo_pc, line_x, line_y, xlim,
                   data_array, time_array, heart_rate, heart_rate_text, tick_raised>>

\* update_plot: list(self.ecg_data), then self.line.set_data(x, y)
TickCopyEcg ==
    /\ tick_pc = "copy_ecg"
    /\ line_x' = arg_x
    /\ line_y' = plotter_ecg_data
    /\ tick_pc' = "xlim"
    /\ UNCHANGED <<linkVars, receiverVars>>
    /\ UNCHANGED <<maxlen, bufVars, running, simVars, demo_pc, arg_x, xlim,
                   data_array, time_array, heart_rate, heart_rate_text, tick_raised>>

\* update_plot: current_time = max(self.time_data); set_xlim(...)
TickXlim ==
    /\ tick_pc = "xlim"
    /\ IF Len(plotter_time_data) > 0
       THEN LET current_time == SeqMax(plotter_time_data)
            IN  xlim' = <<Max(0, current_time - TIME_WINDOW * SAMPLING_RATE),
                          current_time + SAMPLING_RATE \div 2>>
       ELSE xlim' = xlim
    /\ tick_pc' = "hr_len"
    /\ UNCHANGED <<linkVars, receiverVars>>
    /\ UNCHANGED <<maxlen, bufVars, running, simVars, demo_pc, arg_x, line_x, line_y,
                   data_array, time_array, heart_rate, heart_rate_text, tick_raised>>

\* calculate_heart_rate: `if len(self.ecg_data) < 100: return None`
HrLen ==
    /\ tick_pc = "hr_len"
    /\ IF Len(plotter_ecg_data) < MinSamples
       THEN /\ heart_rate' = NoRate
            /\ heart_rate_text' = HeartRateText(NoRate)
            /\ tick_pc' = "idle"
       ELSE /\ tick_pc' = "hr_data"
            /\ UNCHANGED <<heart_rate, heart_rate_text>>
    /\ UNCHANGED <<linkVars, receiverVars>>
    /\ UNCHANGED <<maxlen, bufVars, running, simVars, demo_pc, arg_x, line_x, line_y,
                   xlim, data_array, time_array, tick_raised>>

\* calculate_heart_rate: data_array = np.array(list(self.ecg_data))
HrData ==
    /\ tick_pc = "hr_data"
    /\ data_array' = plotter_ecg_data
    /\ tick_pc' = "hr_time"
    /\ UNCHANGED <<linkVars, receiverVars>>
    /\ UNCHANGED <<maxlen, bufVars, running, simVars, demo_pc, arg_x, line_x, line_y,
                   xlim, time_array, heart_rate, heart_rate_text, tick_raised>>

\* calculate_heart_rate: time_array = np.array(list(self.time_data)), the peak
\* search and the rate; update_plot then sets the text.
HrTime ==
    /\ tick_pc = "hr_time"
    /\ time_array' = plotter_time_data
    /\ LET hr == HeartRateOf(data_array, plotter_time_data)
       IN  /\ heart_rate' = hr
           /\ IF hr.kind = "raise"
              THEN tick_raised' = TRUE /\ UNCHANGED heart_rate_text
              ELSE heart_rate_text' = HeartRateText(hr) /\ UNCHANGED tick_raised
    /\ tick_pc' = "idle"
    /\ UNCHANGED <<linkVars, receiverVars>>
    /\ UNCHANGED <<maxlen, bufVars, running, simVars, demo_pc, arg_x, line_x, line_y,
                   xlim, data_array>>

\* plt.show() returns: the window was closed (or Ctrl-C), main reaches finally
DemoCloseWindow ==
    /\ demo_pc = "show"
    /\ tick_pc = "idle"
    /\ demo_pc' = "stop"
    /\ UNCHANGED <<linkVars, receiverVars>>
    /\ UNCHANGED <<maxlen, bufVars, running, simVars, tickVars>>

\* ECGSimulator.stop: self.running = False
SimulatorStop ==
    /\ demo_pc = "stop"
    /\ running' = FALSE
    /\ demo_pc' = "join"
    /\ UNCHANGED <<linkVars, receiverVars>>
    /\ UNCHANGED <<maxlen, bufVars, simVars, tickVars>>

SimulatorJoinTimesOut ==
    /\ demo_pc = "join"
    /\ demo_pc' = "done"
    /\ UNCHANGED <<linkVars, receiverVars>>
    /\ UNCHANGED <<maxlen, bufVars, running, simVars, tickVars>>

\* ECGSimulator.stop: self.thread.join(), then plotter.close()
SimulatorJoin ==
    /\ demo_pc = "join"
    /\ sim_pc = "exited"
    /\ demo_pc' = "done"
    /\ UNCHANGED <<linkVars, receiverVars>>
    /\ UNCHANGED <<maxlen, bufVars, running, simVars, tickVars>>

DemoNext ==
    \/ SimulatorStart
    \/ SimWhile
    \/ AddEcg
    \/ AddTime
    \/ SimSleep
    \/ TickStart
    \/ TickCopyTime
    \/ TickCopyEcg
    \/ TickXlim
    \/ HrLen
    \/ HrData
    \/ HrTime
    \/ DemoCloseWindow
    \/ SimulatorStop
    \/ SimulatorJoin


\* ------------------------------------------------------- main2.py
\* Text is a sequence of code points, a payload a sequence of bytes.
ESP32_DEVICE_NAME == <<69, 83, 80, 51, 50>>      \* "ESP32"

NoName == <<-1>>                                 \* device.name is None
NoDevice == [name |-> NoName, address |-> "None"]   \* self.device is None
NoClient == "None"                                  \* self.client is None

\* the display names discovery may report: None, "", "MyESP32", "ESP" and
\* "esp32"
Names == { NoName, <<>>, <<77, 121>> \o ESP32_DEVICE_NAME, <<69, 83, 80>>,
           <<101, 115, 112, 51, 50>> }

Addresses == {"AA:01", "BB:02"}

DeviceRecords == [name : Names, address : Addresses]

\* what BleakScanner.discover may return: up to MaxDevices records
DeviceLists == UNION { [1..n -> DeviceRecords] : n \in 0..MaxDevices }

\* Python's `t in s` on strings
Contains(s, t) ==
    \E i \in 0..(Len(s) - Len(t)) : SubSeq(s, i + 1, i + Len(t)) = t

\* `device.name and ESP32_DEVICE_NAME in device.name`
MatchesAnyNamed(d) == d.name # NoName /\ d.name # <<>>

Matches(d) ==
    /\ d.name # NoName
    /\ d.name # <<>>
    /\ Contains(d.name, ESP32_DEVICE_NAME)

\* scan_for_esp32: the loop over the discovered records
ScanForLastEsp32(devs) ==
    LET hits == {i \in 1..Len(devs) : Matches(devs[i])}
    IN  IF hits = {} THEN NoDevice
        ELSE devs[CHOOSE i \in hits : \A j \in hits : j <= i]

RECURSIVE ScanForEsp32(_)
ScanForEsp32(devs) ==
    IF devs = <<>> THEN NoDevice
    ELSE IF Matches(devs[1]) THEN devs[1]
    ELSE ScanForEsp32(Tail(devs))

\* the payloads a notification may carry: "1", " 01\n", "-1", "1.5", "", "a",
\* the byte 0xFF and U+00B2 (superscript two)
Payloads == { <<49>>, <<32, 48, 49, 10>>, <<45, 49>>, <<49, 46, 53>>, <<>>, <<97>>,
              <<255>>, <<194, 178>> }

NoData == <<-1>>                                 \* no notification is pending

DecodeError == <<-1>>

\* bytes.decode('utf-8') on one- and two-byte sequences
RECURSIVE Utf8Decode(_)
Utf8Decode(b) ==
    IF b = <<>> THEN <<>>
    ELSE IF b[1] < 128
         THEN LET rest == Utf8Decode(Tail(b))
              IN  IF rest = DecodeError THEN DecodeError ELSE <<b[1]>> \o rest
    ELSE IF b[1] \in 194..223 /\ Len(b) >= 2 /\ b[2] \in 128..191
         THEN LET rest == Utf8Decode(Tail(Tail(b)))
              IN  IF rest = DecodeError THEN DecodeError
                  ELSE <<(b[1] - 192) * 64 + (b[2] - 128)>> \o rest
    ELSE DecodeError

IsSpace(c) == c \in {9, 10, 11, 12, 13, 28, 29, 30, 31, 32, 133, 160}

RECURSIVE LStrip(_)
LStrip(t) == IF t # <<>> /\ IsSpace(t[1]) THEN LStrip(Tail(t)) ELSE t

RECURSIVE RStrip(_)
RStrip(t) ==
    IF t # <<>> /\ IsSpace(t[Len(t)]) THEN RStrip(SubSeq(t, 1, Len(t) - 1)) ELSE t

\* str.strip()
StripLeftOnly(t) == LStrip(t)

Strip(t) == RStrip(LStrip(t))

\* str.isdigit(): not empty, every character a digit; below U+0100 these are
\* the ASCII digits and the superscripts one, two and three
IsDigit(t) == t # <<>> /\ \A i \in 1..Len(t) : t[i] \in (48..57) \cup {178, 179, 185}

\* int(message) accepts the decimal digits only
IntAccepts(t) == t # <<>> /\ \A i \in 1..Len(t) : t[i] \in 48..57

RECURSIVE IntOf(_)
IntOf(t) == IF t = <<>> THEN 0 ELSE 10 * IntOf(SubSeq(t, 1, Len(t) - 1)) + (t[Len(t)] - 48)

\* `except Exception` catches both errors the body can raise
Caught(exc) == exc \in {"UnicodeDecodeError", "ValueError"}

\* the try body of notification_handler
HandlerBody(buf, data) ==
    LET text == Utf8Decode(data)
    IN  IF text = DecodeError THEN [buf |-> buf, exc |-> "UnicodeDecodeError"]
        ELSE LET message == Strip(text)
             IN  IF IsDigit(message)
                 THEN IF IntAccepts(message)
                      THEN [buf |-> DequeAppend(buf, IntOf(message), MAX_POINTS),
                            exc |-> "none"]
                      ELSE [buf |-> buf, exc |-> "ValueError"]
                 ELSE [buf |-> buf, exc |-> "none"]

\* BLEReceiver.notification_handler
NotificationHandler(buf, data) ==
    LET r == HandlerBody(buf, data)
    IN  [buf |-> r.buf, raised |-> r.exc # "none" /\ ~Caught(r.exc)]

\* threading.Event.set
EventToggle(flag) == ~flag

EventSet(flag) == TRUE

\* ble_thread.join(timeout=2): returns when the thread has ended or the
\* timeout has run out
JoinWithoutTimeout(thread_ended, timed_out) == thread_ended

JoinReturns(thread_ended, timed_out) == thread_ended \/ timed_out

\* `while self.client.is_connected and not stop_event.is_set()`
ListenOnlyWhileConnected(link_up, stop) == link_up

ListenCondition(link_up, stop) == link_up /\ ~stop

NoCalls == [discover |-> 0, connect |-> 0, get_services |-> 0, start_notify |-> 0,
            stop_notify |-> 0, disconnect |-> 0, teardown |-> 0]

Called(what) == [calls EXCEPT ![what] = @ + 1]

InitLink ==
    /\ stop_event = FALSE
    /\ ble_receiver = "None"
    /\ ecg_data = [i \in 1..MAX_POINTS |-> 0]
    /\ link_pc = "not_started"
    /\ devices = <<>>
    /\ device = NoDevice
    /\ client = NoClient
    /\ connected = FALSE
    /\ is_connected = FALSE
    /\ notifying = FALSE
    /\ retval = "running"
    /\ failed = FALSE
    /\ scan_matched = "unknown"
    /\ link_hung = FALSE
    /\ calls = NoCalls
    /\ pending = NoData
    /\ handler_raised = FALSE
    /\ main_pc = "setup"
    /\ stop_sets = 0
    /\ render_pc = "idle"
    /\ line_ydata = [i \in 1..MAX_POINTS |-> 0]
    /\ ylim = <<0, 40950>>
    /\ title = <<"Connecting...">>

\* the coroutine runs: its thread is a daemon thread, gone once the process
\* has exited, and it makes no step while a transport call hangs
LinkRuns == main_pc # "exited" /\ ~link_hung

rxVars == <<pending, handler_raised>>
mainVars == <<main_pc, stop_sets>>
renderVars == <<render_pc, line_ydata, ylim, title>>
sessionVars == <<link_pc, devices, device, client, connected, is_connected, notifying,
                 retval, failed, scan_matched, link_hung, calls>>

\* the exception paths of connect_and_receive: `except Exception` logs, the
\* function falls through to finally and returns None
RetryAfterError ==
    /\ failed' = TRUE
    /\ link_pc' = "idle"

ToFinallyAfterError ==
    /\ failed' = TRUE
    /\ link_pc' = "finally"

\* main: ble_thread.start(), then FuncAnimation and plt.show
MainStartThread ==
    /\ main_pc = "setup"
    /\ receiver_pc = "not_started"
    /\ main_pc' = "show"
    /\ link_pc' = "idle"
    /\ UNCHANGED <<demoVars, receiverVars>>
    /\ UNCHANGED <<stop_event, ble_receiver, ecg_data, devices, device, client,
                   connected, is_connected, notifying, retval, failed, scan_matched,
                   link_hung, calls, rxVars, stop_sets, renderVars>>

\* ble_main: ble_receiver = BLEReceiver() binds a local of ble_main (the
\* `global` statement is in run_ble_async, not in ble_main), then
\* connect_and_receive calls scan_for_esp32, which awaits discover()
LinkStartScan ==
    /\ LinkRuns
    /\ link_pc = "idle"
    /\ calls' = Called("discover")
    /\ link_pc' = "scan"
    /\ UNCHANGED <<demoVars, receiverVars>>
    /\ UNCHANGED <<stop_event, ble_receiver, ecg_data, devices, device, client,
                   connected, is_connected, notifying, retval, failed, scan_matched,
                   link_hung, rxVars, mainVars, renderVars>>

\* BleakScanner.discover returns its list
DiscoverReturn ==
    /\ LinkRuns
    /\ link_pc = "scan"
    /\ \E devs \in DeviceLists :
          /\ devices' = devs
          /\ scan_matched' =
                LET hits == {i \in 1..Len(devs) :
                                /\ devs[i].name # NoName
                                /\ Contains(devs[i].name, ESP32_DEVICE_NAME)}
                IN  IF hits = {} THEN "no"
                    ELSE IF Cardinality(hits) = 1 THEN "yes" ELSE "several"
    /\ link_pc' = "select"
    /\ UNCHANGED <<demoVars, receiverVars>>
    /\ UNCHANGED <<stop_event, ble_receiver, ecg_data, device, client, connected,
                   is_connected, notifying, retval, failed, link_hung, calls, rxVars,
                   mainVars, renderVars>>

\* BleakScanner.discover raises
DiscoverRaise ==
    /\ LinkRuns
    /\ link_pc = "scan"
    /\ ToFinallyAfterError
    /\ UNCHANGED <<demoVars, receiverVars>>
    /\ UNCHANGED <<stop_event, ble_receiver, ecg_data, devices, device, client,
                   connected, is_connected, notifying, retval, scan_matched, link_hung,
                   calls, rxVars, mainVars, renderVars>>

\* scan_for_esp32 returns; `if not self.device: return False`, else
\* BleakClient(address) and await connect()
ScanSelect ==
    /\ LinkRuns
    /\ link_pc = "select"
    /\ device' = ScanForEsp32(devices)
    /\ devices' = <<>>
    /\ IF device' = NoDevice
       THEN /\ retval' = "False"
            /\ failed' = TRUE
            /\ link_pc' = "finally"
            /\ UNCHANGED <<client, calls>>
       ELSE /\ client' = device'.address
            /\ calls' = Called("connect")
            /\ link_pc' = "connect"
            /\ UNCHANGED <<retval, failed>>
    /\ UNCHANGED <<demoVars, receiverVars>>
    /\ UNCHANGED <<stop_event, ble_receiver, ecg_data, connected, is_connected,
                   notifying, scan_matched, link_hung, rxVars, mainVars, renderVars>>

\* client.connect() returns; `if not self.client.is_connected: return False`,
\* else self.connected = True and await get_services()
ConnectReturn ==
    /\ LinkRuns
    /\ link_pc = "connect"
    /\ \E up \in BOOLEAN :
          /\ is_connected' = up
          /\ IF up
             THEN /\ connected' = TRUE
                  /\ calls' = Called("get_services")
                  /\ link_pc' = "get_services"
                  /\ UNCHANGED <<retval, failed>>
             ELSE /\ retval' = "False"
                  /\ failed' = TRUE
                  /\ link_pc' = "finally"
                  /\ UNCHANGED <<connected, calls>>
    /\ UNCHANGED <<demoVars, receiverVars>>
    /\ UNCHANGED <<stop_event, ble_receiver, ecg_data, devices, device, client,
                   notifying, scan_matched, link_hung, rxVars, mainVars, renderVars>>

\* client.connect() raises
ConnectRaise ==
    /\ LinkRuns
    /\ link_pc = "connect"
    /\ ToFinallyAfterError
    /\ UNCHANGED <<demoVars, receiverVars>>
    /\ UNCHANGED <<stop_event, ble_receiver, ecg_data, devices, device, client,
                   connected, is_connected, notifying, retval, scan_matched, link_hung,
                   calls, rxVars, mainVars, renderVars>>

\* get_services() returns; the characteristic search only logs; then
\* await start_notify()
GetServicesReturn ==
    /\ LinkRuns
    /\ link_pc = "get_services"
    /\ calls' = Called("start_notify")
    /\ link_pc' = "start_notify"
    /\ UNCHANGED <<demoVars, receiverVars>>
    /\ UNCHANGED <<stop_event, ble_receiver, ecg_data, devices, device, client,
                   connected, is_connected, notifying, retval, failed, scan_matched,
                   link_hung, rxVars, mainVars, renderVars>>

\* get_services() raises
GetServicesRaise ==
    /\ LinkRuns
    /\ link_pc = "get_services"
    /\ ToFinallyAfterError
    /\ UNCHANGED <<demoVars, receiverVars>>
    /\ UNCHANGED <<stop_event, ble_receiver, ecg_data, devices, device, client,
                   connected, is_connected, notifying, retval, scan_matched, link_hung,
                   calls, rxVars, mainVars, renderVars>>

\* start_notify() returns: the listening loop starts
StartNotifyReturn ==
    /\ LinkRuns
    /\ link_pc = "start_notify"
    /\ notifying' = is_connected
    /\ link_pc' = "listen"
    /\ UNCHANGED <<demoVars, receiverVars>>
    /\ UNCHANGED <<stop_event, ble_receiver, ecg_data, devices, device, client,
                   connected, is_connected, retval, failed, scan_matched, link_hung,
                   calls, rxVars, mainVars, renderVars>>

\* start_notify() raises: the inner except logs and returns False
StartNotifyRaise ==
    /\ LinkRuns
    /\ link_pc = "start_notify"
    /\ retval' = "False"
    /\ failed' = TRUE
    /\ link_pc' = "finally"
    /\ UNCHANGED <<demoVars, receiverVars>>
    /\ UNCHANGED <<stop_event, ble_receiver, ecg_data, devices, device, client,
                   connected, is_connected, notifying, scan_matched, link_hung, calls,
                   rxVars, mainVars, renderVars>>

\* the test of the listening loop
ListenCheck ==
    /\ LinkRuns
    /\ link_pc = "listen"
    /\ link_pc' = IF ListenCondition(is_connected, stop_event) THEN "sleep" ELSE "finally"
    /\ UNCHANGED <<demoVars, receiverVars>>
    /\ UNCHANGED <<stop_event, ble_receiver, ecg_data, devices, device, client,
                   connected, is_connected, notifying, retval, failed, scan_matched,
                   link_hung, calls, rxVars, mainVars, renderVars>>

\* await asyncio.sleep(0.1) returns
ListenWake ==
    /\ LinkRuns
    /\ link_pc = "sleep"
    /\ link_pc' = "listen"
    /\ UNCHANGED <<demoVars, receiverVars>>
    /\ UNCHANGED <<stop_event, ble_receiver, ecg_data, devices, device, client,
                   connected, is_connected, notifying, retval, failed, scan_matched,
                   link_hung, calls, rxVars, mainVars, renderVars>>

FinallyAlwaysUnsubscribes ==
    /\ LinkRuns
    /\ link_pc = "finally"
    /\ calls' = [calls EXCEPT !.teardown = @ + 1, !.stop_notify = @ + 1]
    /\ link_pc' = "stop_notify"
    /\ UNCHANGED <<demoVars, receiverVars>>
    /\ UNCHANGED <<stop_event, ble_receiver, ecg_data, devices, device, client,
                   connected, is_connected, notifying, retval, failed, scan_matched,
                   link_hung, rxVars, mainVars, renderVars>>

\* finally: disconnect(); `if self.client and self.client.is_connected` awaits
\* stop_notify, otherwise self.connected = False and the coroutine returns; the
\* loop is then closed, and a callback still pending on it never runs
Finally ==
    /\ LinkRuns
    /\ link_pc = "finally"
    /\ IF client # NoClient /\ is_connected
       THEN /\ calls' = [calls EXCEPT !.teardown = @ + 1, !.stop_notify = @ + 1]
            /\ link_pc' = "stop_notify"
            /\ UNCHANGED <<connected, retval>>
       ELSE /\ calls' = Called("teardown")
            /\ connected' = FALSE
            /\ retval' = IF retval = "running" THEN "None" ELSE retval
            /\ link_pc' = "done"
    /\ pending' = IF link_pc' = "done" THEN NoData ELSE pending
    /\ UNCHANGED <<demoVars, receiverVars>>
    /\ UNCHANGED <<stop_event, ble_receiver, ecg_data, devices, device, client,
                   is_connected, notifying, failed, scan_matched, link_hung,
                   handler_raised, mainVars, renderVars>>

\* stop_notify() returns or raises (logged); then await client.disconnect()
StopNotifyDone ==
    /\ LinkRuns
    /\ link_pc = "stop_notify"
    /\ \E ok \in BOOLEAN : notifying' = (IF ok THEN FALSE ELSE notifying)
    /\ calls' = Called("disconnect")
    /\ link_pc' = "client_disconnect"
    /\ UNCHANGED <<demoVars, receiverVars>>
    /\ UNCHANGED <<stop_event, ble_receiver, ecg_data, devices, device, client,
                   connected, is_connected, retval, failed, scan_matched, link_hung,
                   rxVars, mainVars, renderVars>>

ClientDisconnectFlagInsideTry ==
    /\ LinkRuns
    /\ link_pc = "client_disconnect"
    /\ \E ok \in BOOLEAN :
          /\ is_connected' = (IF ok THEN FALSE ELSE is_connected)
          /\ notifying' = (IF ok THEN FALSE ELSE notifying)
          /\ connected' = (IF ok THEN FALSE ELSE connected)
    /\ retval' = IF retval = "running" THEN "None" ELSE retval
    /\ link_pc' = "done"
    /\ pending' = NoData
    /\ UNCHANGED <<demoVars, receiverVars>>
    /\ UNCHANGED <<stop_event, ble_receiver, ecg_data, devices, device, client, failed,
                   scan_matched, link_hung, calls, handler_raised, mainVars,
                   renderVars>>

\* client.disconnect() returns or raises (logged); self.connected = False; the
\* coroutine returns and the loop is closed
ClientDisconnectDone ==
    /\ LinkRuns
    /\ link_pc = "client_disconnect"
    /\ \E ok \in BOOLEAN :
          /\ is_connected' = (IF ok THEN FALSE ELSE is_connected)
          /\ notifying' = (IF ok THEN FALSE ELSE notifying)
    /\ connected' = FALSE
    /\ retval' = IF retval = "running" THEN "None" ELSE retval
    /\ link_pc' = "done"
    /\ pending' = NoData
    /\ UNCHANGED <<demoVars, receiverVars>>
    /\ UNCHANGED <<stop_event, ble_receiver, ecg_data, devices, device, client, failed,
                   scan_matched, link_hung, calls, handler_raised, mainVars,
                   renderVars>>

\* a transport call that never returns
TransportAwaits == {"scan", "connect", "get_services", "start_notify", "stop_notify",
                    "client_disconnect"}

LinkHang ==
    /\ LinkRuns
    /\ link_pc \in TransportAwaits
    /\ link_hung' = TRUE
    /\ UNCHANGED <<demoVars, receiverVars>>
    /\ UNCHANGED <<stop_event, ble_receiver, ecg_data, link_pc, devices, device, client,
                   connected, is_connected, notifying, retval, failed, scan_matched,
                   calls, rxVars, mainVars, renderVars>>

\* the remote device goes away
TransportDrop ==
    /\ is_connected
    /\ is_connected' = FALSE
    /\ notifying' = FALSE
    /\ UNCHANGED <<demoVars, receiverVars>>
    /\ UNCHANGED <<stop_event, ble_receiver, ecg_data, link_pc, devices, device, client,
                   connected, retval, failed, scan_matched, link_hung, calls, rxVars,
                   mainVars, renderVars>>

\* the event loop of the BLE thread runs callbacks only while
\* connect_and_receive is suspended in an await after start_notify
HandlerCanRun ==
    /\ main_pc # "exited"
    /\ link_pc \in {"sleep", "stop_notify", "client_disconnect"}

\* the transport delivers a notification: bleak schedules notification_handler
NotificationArrives ==
    /\ HandlerCanRun
    /\ notifying
    /\ is_connected
    /\ pending = NoData
    /\ \E data \in Payloads : pending' = data
    /\ UNCHANGED <<demoVars, receiverVars>>
    /\ UNCHANGED <<stop_event, ble_receiver, ecg_data, sessionVars, handler_raised,
                   mainVars, renderVars>>

\* the event loop runs notification_handler(sender, data)
HandleNotification ==
    /\ HandlerCanRun
    /\ pending # NoData
    /\ LET r == NotificationHandler(ecg_data, pending)
       IN  /\ ecg_data' = r.buf
           /\ handler_raised' = (handler_raised \/ r.raised)
    /\ pending' = NoData
    /\ UNCHANGED <<demoVars, receiverVars>>
    /\ UNCHANGED <<stop_event, ble_receiver, sessionVars, mainVars, renderVars>>

\* update_plot of main2.py: line.set_ydata(list(ecg_data))
RenderTick ==
    /\ main_pc = "show"
    /\ render_pc = "idle"
    /\ line_ydata' = ecg_data
    /\ render_pc' = "ylim"
    /\ UNCHANGED <<demoVars, receiverVars>>
    /\ UNCHANGED <<stop_event, ble_receiver, ecg_data, sessionVars, rxVars, mainVars,
                   ylim, title>>

\* update_plot of main2.py: the second copy, the y limits (margin 0.1 of the
\* range; kept times 10) and the title
RenderFinish ==
    /\ render_pc = "ylim"
    /\ IF Len(ecg_data) > 0 /\ SeqMax(ecg_data) > SeqMin(ecg_data)
       THEN LET data_min == SeqMin(ecg_data)
                data_max == SeqMax(ecg_data)
                margin10 == data_max - data_min
            IN  ylim' = <<10 * data_min - margin10, 10 * data_max + margin10>>
       ELSE ylim' = ylim
    /\ title' = IF ble_receiver # "None" /\ connected
                THEN <<"Connected", ecg_data[Len(ecg_data)]>>
                ELSE <<"Disconnected">>
    /\ render_pc' = "idle"
    /\ UNCHANGED <<demoVars, receiverVars>>
    /\ UNCHANGED <<stop_event, ble_receiver, ecg_data, sessionVars, rxVars, mainVars,
                   line_ydata>>

\* the user closes the window: on_close sets the event and plt.show returns
CloseWindow ==
    /\ main_pc = "show"
    /\ render_pc = "idle"
    /\ stop_event' = EventSet(stop_event)
    /\ main_pc' = "set_stop"
    /\ stop_sets' = stop_sets + 1
    /\ UNCHANGED <<demoVars, receiverVars>>
    /\ UNCHANGED <<ble_receiver, ecg_data, sessionVars, rxVars, renderVars>>

\* Ctrl-C while plt.show blocks: `except KeyboardInterrupt` logs
KeyboardInterrupt ==
    /\ main_pc = "show"
    /\ render_pc = "idle"
    /\ main_pc' = "set_stop"
    /\ UNCHANGED stop_sets
    /\ UNCHANGED <<demoVars, receiverVars>>
    /\ UNCHANGED <<stop_event, ble_receiver, ecg_data, sessionVars, rxVars,
                   renderVars>>

\* main: stop_event.set() after plt.show
MainSetStop ==
    /\ main_pc = "set_stop"
    /\ stop_event' = EventSet(stop_event)
    /\ main_pc' = "join"
    /\ stop_sets' = stop_sets + 1
    /\ UNCHANGED <<demoVars, receiverVars>>
    /\ UNCHANGED <<ble_receiver, ecg_data, sessionVars, rxVars, renderVars>>

\* main: `if ble_thread.is_alive(): ble_thread.join(timeout=2)`, then
\* print("Program finished")
MainJoin ==
    /\ main_pc = "join"
    /\ \E timed_out \in BOOLEAN : JoinReturns(link_pc = "done", timed_out)
    /\ main_pc' = "finished"
    /\ UNCHANGED stop_sets
    /\ UNCHANGED <<demoVars, receiverVars>>
    /\ UNCHANGED <<stop_event, ble_receiver, ecg_data, sessionVars, rxVars,
                   renderVars>>

\* main returns and the interpreter exits: the daemon BLE thread ends with it
ProcessExit ==
    /\ main_pc = "finished"
    /\ main_pc' = "exited"
    /\ UNCHANGED stop_sets
    /\ UNCHANGED <<demoVars, receiverVars>>
    /\ UNCHANGED <<stop_event, ble_receiver, ecg_data, sessionVars, rxVars,
                   renderVars>>

\* ---------------------------------------------------------- main.py
\* main.py is the console receiver: asyncio.run(main()) runs one
\* BLEReceiver.connect_and_receive on the main thread.  It has no plot, no
\* stop_event and no sample buffer; its notification_handler prints.

\* notification_handler of main.py: the decoded text (not stripped), or the
\* bytes in hex when they are not UTF-8
NoOutput == <<"none">>

ReceiverNotificationHandler(data) ==
    IF Utf8Decode(data) = DecodeError
    THEN <<"ESP32 Binary", data>>
    ELSE <<"ESP32 Data", Utf8Decode(data)>>

\* `while self.client.is_connected:` of the read fallback
PollWhileDisconnected(link_up) == ~link_up

PollCondition(link_up) == link_up

InitReceiver ==
    /\ receiver_pc = "not_started"
    /\ receiver_devices = <<>>
    /\ receiver_device = NoDevice
    /\ receiver_client = NoClient
    /\ receiver_is_connected = FALSE
    /\ receiver_notifying = FALSE
    /\ receiver_calls = NoCalls
    /\ receiver_result = "running"
    /\ receiver_failed = FALSE
    /\ receiver_polling = FALSE
    /\ receiver_output = NoOutput
    /\ receiver_interrupted = FALSE

ReceiverCalled(what) == [receiver_calls EXCEPT ![what] = @ + 1]

\* `except Exception as e: logger.error(...)`, then finally
ReceiverToFinallyAfterError ==
    /\ receiver_failed' = TRUE
    /\ receiver_pc' = "finally"

\* asyncio.run(main()): BLEReceiver(), connect_and_receive, scan_for_esp32
\* awaits discover()
ReceiverStart ==
    /\ receiver_pc = "not_started"
    /\ main_pc = "setup"
    /\ receiver_calls' = ReceiverCalled("discover")
    /\ receiver_pc' = "scan"
    /\ UNCHANGED <<demoVars, linkVars>>
    /\ UNCHANGED <<receiver_devices, receiver_device, receiver_client,
                   receiver_is_connected, receiver_notifying, receiver_result,
                   receiver_failed, receiver_polling, receiver_output, receiver_interrupted>>

\* BleakScanner.discover returns its list
ReceiverDiscoverReturn ==
    /\ receiver_pc = "scan"
    /\ \E devs \in DeviceLists : receiver_devices' = devs
    /\ receiver_pc' = "select"
    /\ UNCHANGED <<demoVars, linkVars>>
    /\ UNCHANGED <<receiver_device, receiver_client, receiver_is_connected,
                   receiver_notifying, receiver_calls, receiver_result,
                   receiver_failed, receiver_polling, receiver_output, receiver_interrupted>>

\* BleakScanner.discover raises
ReceiverDiscoverRaise ==
    /\ receiver_pc = "scan"
    /\ ReceiverToFinallyAfterError
    /\ UNCHANGED <<demoVars, linkVars>>
    /\ UNCHANGED <<receiver_devices, receiver_device, receiver_client,
                   receiver_is_connected, receiver_notifying, receiver_calls,
                   receiver_result, receiver_polling, receiver_output, receiver_interrupted>>

\* scan_for_esp32 returns; `if not self.device: return False`, else
\* BleakClient(address) and await connect()
ReceiverScanSelect ==
    /\ receiver_pc = "select"
    /\ receiver_device' = ScanForEsp32(receiver_devices)
    /\ receiver_devices' = <<>>
    /\ IF receiver_device' = NoDevice
       THEN /\ receiver_result' = "False"
            /\ receiver_failed' = TRUE
            /\ receiver_pc' = "finally"
            /\ UNCHANGED <<receiver_client, receiver_calls>>
       ELSE /\ receiver_client' = receiver_device'.address
            /\ receiver_calls' = ReceiverCalled("connect")
            /\ receiver_pc' = "connect"
            /\ UNCHANGED <<receiver_result, receiver_failed>>
    /\ UNCHANGED <<demoVars, linkVars>>
    /\ UNCHANGED <<receiver_is_connected, receiver_notifying, receiver_polling,
                   receiver_output, receiver_interrupted>>

\* client.connect() returns; `if not self.client.is_connected: return False`,
\* else await get_services()
ReceiverConnectReturn ==
    /\ receiver_pc = "connect"
    /\ \E up \in BOOLEAN :
          /\ receiver_is_connected' = up
          /\ IF up
             THEN /\ receiver_calls' = ReceiverCalled("get_services")
                  /\ receiver_pc' = "get_services"
                  /\ UNCHANGED <<receiver_result, receiver_failed>>
             ELSE /\ receiver_result' = "False"
                  /\ receiver_failed' = TRUE
                  /\ receiver_pc' = "finally"
                  /\ UNCHANGED receiver_calls
    /\ UNCHANGED <<demoVars, linkVars>>
    /\ UNCHANGED <<receiver_devices, receiver_device, receiver_client,
                   receiver_notifying, receiver_polling, receiver_output, receiver_interrupted>>

\* client.connect() raises
ReceiverConnectRaise ==
    /\ receiver_pc = "connect"
    /\ ReceiverToFinallyAfterError
    /\ UNCHANGED <<demoVars, linkVars>>
    /\ UNCHANGED <<receiver_devices, receiver_device, receiver_client,
                   receiver_is_connected, receiver_notifying, receiver_calls,
                   receiver_result, receiver_polling, receiver_output, receiver_interrupted>>

\* get_services() returns: the services are logged, then await start_notify
ReceiverGetServicesReturn ==
    /\ receiver_pc = "get_services"
    /\ receiver_calls' = ReceiverCalled("start_notify")
    /\ receiver_pc' = "start_notify"
    /\ UNCHANGED <<demoVars, linkVars>>
    /\ UNCHANGED <<receiver_devices, receiver_device, receiver_client,
                   receiver_is_connected, receiver_notifying, receiver_result,
                   receiver_failed, receiver_polling, receiver_output, receiver_interrupted>>

\* get_services() raises
ReceiverGetServicesRaise ==
    /\ receiver_pc = "get_services"
    /\ ReceiverToFinallyAfterError
    /\ UNCHANGED <<demoVars, linkVars>>
    /\ UNCHANGED <<receiver_devices, receiver_device, receiver_client,
                   receiver_is_connected, receiver_notifying, receiver_calls,
                   receiver_result, receiver_polling, receiver_output, receiver_interrupted>>

\* start_notify returns: the keep-alive loop follows
ReceiverStartNotifyReturn ==
    /\ receiver_pc = "start_notify"
    /\ receiver_notifying' = receiver_is_connected
    /\ receiver_pc' = "listen"
    /\ UNCHANGED <<demoVars, linkVars>>
    /\ UNCHANGED <<receiver_devices, receiver_device, receiver_client,
                   receiver_is_connected, receiver_calls, receiver_result,
                   receiver_failed, receiver_polling, receiver_output, receiver_interrupted>>

\* start_notify raises: logged as a warning, the read fallback follows
ReceiverStartNotifyRaise ==
    /\ receiver_pc = "start_notify"
    /\ receiver_polling' = TRUE
    /\ receiver_pc' = "poll"
    /\ UNCHANGED <<demoVars, linkVars>>
    /\ UNCHANGED <<receiver_devices, receiver_device, receiver_client,
                   receiver_is_connected, receiver_notifying, receiver_calls,
                   receiver_result, receiver_failed, receiver_output, receiver_interrupted>>

\* the read fallback: `while self.client.is_connected:` then await
\* read_gatt_char; when the loop ends the keep-alive loop follows
ReceiverPollCheck ==
    /\ receiver_pc = "poll"
    /\ receiver_pc' = IF PollCondition(receiver_is_connected) THEN "read" ELSE "listen"
    /\ UNCHANGED <<demoVars, linkVars>>
    /\ UNCHANGED <<receiver_devices, receiver_device, receiver_client,
                   receiver_is_connected, receiver_notifying, receiver_calls,
                   receiver_result, receiver_failed, receiver_polling,
                   receiver_output, receiver_interrupted>>

\* read_gatt_char returns: await self.notification_handler(uuid, data), which
\* never suspends, then await asyncio.sleep(1)
ReceiverReadReturn ==
    /\ receiver_pc = "read"
    /\ receiver_is_connected
    /\ \E data \in Payloads : receiver_output' = ReceiverNotificationHandler(data)
    /\ receiver_pc' = "poll_sleep"
    /\ UNCHANGED <<demoVars, linkVars>>
    /\ UNCHANGED <<receiver_devices, receiver_device, receiver_client,
                   receiver_is_connected, receiver_notifying, receiver_calls,
                   receiver_result, receiver_failed, receiver_polling, receiver_interrupted>>

\* read_gatt_char raises: logged, `break`, the keep-alive loop follows
ReceiverReadRaise ==
    /\ receiver_pc = "read"
    /\ receiver_pc' = "listen"
    /\ UNCHANGED <<demoVars, linkVars>>
    /\ UNCHANGED <<receiver_devices, receiver_device, receiver_client,
                   receiver_is_connected, receiver_notifying, receiver_calls,
                   receiver_result, receiver_failed, receiver_polling,
                   receiver_output, receiver_interrupted>>

\* asyncio.sleep(1) of the read fallback returns
ReceiverPollWake ==
    /\ receiver_pc = "poll_sleep"
    /\ receiver_pc' = "poll"
    /\ UNCHANGED <<demoVars, linkVars>>
    /\ UNCHANGED <<receiver_devices, receiver_device, receiver_client,
                   receiver_is_connected, receiver_notifying, receiver_calls,
                   receiver_result, receiver_failed, receiver_polling,
                   receiver_output, receiver_interrupted>>

\* the keep-alive loop: `while self.client.is_connected: await asyncio.sleep(1)`
ReceiverListenCheck ==
    /\ receiver_pc = "listen"
    /\ receiver_pc' = IF receiver_is_connected THEN "listen_sleep" ELSE "finally"
    /\ UNCHANGED <<demoVars, linkVars>>
    /\ UNCHANGED <<receiver_devices, receiver_device, receiver_client,
                   receiver_is_connected, receiver_notifying, receiver_calls,
                   receiver_result, receiver_failed, receiver_polling,
                   receiver_output, receiver_interrupted>>

ReceiverListenWake ==
    /\ receiver_pc = "listen_sleep"
    /\ receiver_pc' = "listen"
    /\ UNCHANGED <<demoVars, linkVars>>
    /\ UNCHANGED <<receiver_devices, receiver_device, receiver_client,
                   receiver_is_connected, receiver_notifying, receiver_calls,
                   receiver_result, receiver_failed, receiver_polling,
                   receiver_output, receiver_interrupted>>

\* the awaits of connect_and_receive before its teardown
ReceiverAwaits == {"scan", "connect", "get_services", "start_notify", "read",
                   "poll_sleep", "listen_sleep"}

\* Ctrl-C: asyncio.run cancels the task, the coroutine unwinds through its
\* finally clause and KeyboardInterrupt reaches the `__main__` block
ReceiverInterrupt ==
    /\ receiver_pc \in ReceiverAwaits
    /\ ~receiver_interrupted
    /\ receiver_interrupted' = TRUE
    /\ receiver_pc' = "finally"
    /\ UNCHANGED <<demoVars, linkVars>>
    /\ UNCHANGED <<receiver_devices, receiver_device, receiver_client,
                   receiver_is_connected, receiver_notifying, receiver_calls,
                   receiver_result, receiver_failed, receiver_polling,
                   receiver_output>>

\* the peripheral goes away
ReceiverTransportDrop ==
    /\ receiver_is_connected
    /\ receiver_pc # "done"
    /\ receiver_is_connected' = FALSE
    /\ receiver_notifying' = FALSE
    /\ UNCHANGED <<demoVars, linkVars>>
    /\ UNCHANGED <<receiver_pc, receiver_devices, receiver_device, receiver_client,
                   receiver_calls, receiver_result, receiver_failed,
                   receiver_polling, receiver_output, receiver_interrupted>>

\* a notification is delivered while the coroutine is suspended: the handler
\* prints it
ReceiverNotification ==
    /\ receiver_notifying
    /\ receiver_pc \in {"listen_sleep", "stop_notify"}
    /\ \E data \in Payloads : receiver_output' = ReceiverNotificationHandler(data)
    /\ UNCHANGED <<demoVars, linkVars>>
    /\ UNCHANGED <<receiver_pc, receiver_devices, receiver_device, receiver_client,
                   receiver_is_connected, receiver_notifying, receiver_calls,
                   receiver_result, receiver_failed, receiver_polling, receiver_interrupted>>

\* what connect_and_receive hands to its caller when it ends without an
\* exception of its own
ReceiverOutcome ==
    IF receiver_interrupted THEN "KeyboardInterrupt"
    ELSE IF receiver_result = "running" THEN "None" ELSE receiver_result

\* finally: disconnect(); `if self.client and self.client.is_connected` awaits
\* stop_notify, otherwise the coroutine ends
ReceiverFinally ==
    /\ receiver_pc = "finally"
    /\ IF receiver_client # NoClient /\ receiver_is_connected
       THEN /\ receiver_calls' = [receiver_calls EXCEPT !.teardown = @ + 1,
                                                        !.stop_notify = @ + 1]
            /\ receiver_pc' = "stop_notify"
            /\ UNCHANGED receiver_result
       ELSE /\ receiver_calls' = ReceiverCalled("teardown")
            /\ receiver_result' = ReceiverOutcome
            /\ receiver_pc' = "done"
    /\ UNCHANGED <<demoVars, linkVars>>
    /\ UNCHANGED <<receiver_devices, receiver_device, receiver_client,
                   receiver_is_connected, receiver_notifying, receiver_failed,
                   receiver_polling, receiver_output, receiver_interrupted>>

\* stop_notify returns or raises (`except: pass`); then await
\* self.client.disconnect()
ReceiverStopNotifyDone ==
    /\ receiver_pc = "stop_notify"
    /\ \E ok \in BOOLEAN :
          receiver_notifying' = (IF ok THEN FALSE ELSE receiver_notifying)
    /\ receiver_calls' = ReceiverCalled("disconnect")
    /\ receiver_pc' = "client_disconnect"
    /\ UNCHANGED <<demoVars, linkVars>>
    /\ UNCHANGED <<receiver_devices, receiver_device, receiver_client,
                   receiver_is_connected, receiver_result, receiver_failed,
                   receiver_polling, receiver_output, receiver_interrupted>>

\* client.disconnect() returns: "Disconnected" is logged and the coroutine ends
ReceiverClientDisconnectReturn ==
    /\ receiver_pc = "client_disconnect"
    /\ receiver_is_connected' = FALSE
    /\ receiver_notifying' = FALSE
    /\ receiver_result' = ReceiverOutcome
    /\ receiver_pc' = "done"
    /\ UNCHANGED <<demoVars, linkVars>>
    /\ UNCHANGED <<receiver_devices, receiver_device, receiver_client,
                   receiver_calls, receiver_failed, receiver_polling,
                   receiver_output, receiver_interrupted>>

\* client.disconnect() raises: the call is outside any try, so the exception
\* leaves disconnect(), the finally clause, connect_and_receive, main() and
\* asyncio.run; `__main__` logs "Fatal error" and exits with status 1
ReceiverClientDisconnectRaise ==
    /\ receiver_pc = "client_disconnect"
    /\ receiver_result' = "raised"
    /\ receiver_pc' = "done"
    /\ UNCHANGED <<demoVars, linkVars>>
    /\ UNCHANGED <<receiver_devices, receiver_device, receiver_client,
                   receiver_is_connected, receiver_notifying, receiver_calls,
                   receiver_failed, receiver_polling, receiver_output, receiver_interrupted>>

\* the steps of main.py
ReceiverNext ==
    \/ ReceiverStart
    \/ ReceiverDiscoverReturn
    \/ ReceiverDiscoverRaise
    \/ ReceiverScanSelect
    \/ ReceiverConnectReturn
    \/ ReceiverConnectRaise
    \/ ReceiverGetServicesReturn
    \/ ReceiverGetServicesRaise
    \/ ReceiverStartNotifyReturn
    \/ ReceiverStartNotifyRaise
    \/ ReceiverPollCheck
    \/ ReceiverReadReturn
    \/ ReceiverReadRaise
    \/ ReceiverPollWake
    \/ ReceiverListenCheck
    \/ ReceiverListenWake
    \/ ReceiverInterrupt
    \/ ReceiverTransportDrop
    \/ ReceiverNotification
    \/ ReceiverFinally
    \/ ReceiverStopNotifyDone
    \/ ReceiverClientDisconnectReturn
    \/ ReceiverClientDisconnectRaise

\* the steps of the coroutine connect_and_receive
CoroutineNext ==
    \/ LinkStartScan
    \/ DiscoverReturn
    \/ DiscoverRaise
    \/ ScanSelect
    \/ ConnectReturn
    \/ ConnectRaise
    \/ GetServicesReturn
    \/ GetServicesRaise
    \/ StartNotifyReturn
    \/ StartNotifyRaise
    \/ ListenCheck
    \/ ListenWake
    \/ Finally
    \/ StopNotifyDone
    \/ ClientDisconnectDone
    \/ LinkHang

\* the steps of the BLE thread: the coroutine and the callbacks of its loop
LinkNext ==
    \/ CoroutineNext
    \/ HandleNotification

MainNext ==
    \/ MainSetStop
    \/ MainJoin
    \/ ProcessExit

Next ==
    \/ MainStartThread
    \/ LinkNext
    \/ TransportDrop
    \/ NotificationArrives
    \/ RenderTick
    \/ RenderFinish
    \/ CloseWindow
    \/ KeyboardInterrupt
    \/ MainNext
    \/ ReceiverNext

\* ecg_plot_demo.py is a program of its own: it is not running in Spec, and
\* main2.py is not running in DemoSpec
DemoNotRunning == InitDemo /\ maxlen = MaxCap

Init == InitLink /\ InitReceiver /\ DemoNotRunning

Spec == Init /\ [][Next]_vars

\* ecg_plot_demo.py run on its own: main2.py stays as constructed
DemoInit == InitDemo /\ InitLink /\ InitReceiver

DemoSpec == DemoInit /\ [][DemoNext]_vars

\* the steps of the simulate_data thread, and those of ECGSimulator.stop
SimulatorThread == SimWhile \/ AddEcg \/ AddTime \/ SimSleep
SimulatorStopSteps == SimulatorStop \/ SimulatorJoin

\* both threads of the demo keep being scheduled
DemoFairSpec == DemoSpec /\ WF_vars(SimulatorThread) /\ WF_vars(SimulatorStopSteps)

\* the BLE thread keeps being scheduled: its event loop resumes the coroutine
\* whenever the call it awaits has returned or raised
LinkFairSpec == Spec /\ WF_vars(CoroutineNext)

\* the main thread keeps being scheduled
MainFairSpec == Spec /\ WF_vars(MainNext)

\* the main thread keeps being scheduled and, while the window is open, the
\* timer of FuncAnimation keeps calling update_plot
RenderFairSpec == Spec /\ WF_vars(MainNext) /\ WF_vars(RenderTick \/ RenderFinish)

\* the session state of the design, read off the position of the BLE thread
SessionState ==
    IF failed THEN "Failed"
    ELSE CASE link_pc \in {"not_started", "idle"} -> "Idle"
           [] link_pc \in {"scan", "select"} -> "Scanning"
           [] link_pc = "connect" -> "Connecting"
           [] link_pc \in {"get_services", "start_notify"} -> "Subscribing"
           [] link_pc \in {"listen", "sleep"} -> "Streaming"
           [] link_pc \in {"finally", "stop_notify", "client_disconnect"} -> "Disconnecting"
           [] link_pc = "done" -> "Stopped"

\* ------------------------------------------- the rate estimator alone
\* the minimum sample count of calculate_heart_rate, scaled, and with it the
\* capacity of the buffers the estimator is run on
EstMinSamples == 6

\* the sample intervals the clock advances between two samples when it advances
ClockStep == 7

\* timestamps a producer can have stored: the clock never runs backwards and
\* may read the same twice
RECURSIVE TimeStamps(_)
TimeStamps(n) ==
    IF n = 0 THEN {<<>>}
    ELSE IF n = 1 THEN {<<0>>}
    ELSE {Append(t, t[n - 1] + d) : t \in TimeStamps(n - 1), d \in {0, ClockStep}}

\* the plotter with n samples in its buffers, the window open and the
\* simulator thread asleep between two samples
EstimatorInit ==
    /\ InitLink
    /\ InitReceiver
    /\ maxlen = EstMinSamples
    /\ \E n \in 0..EstMinSamples :
          /\ plotter_ecg_data \in [1..n -> Values]
          /\ plotter_time_data \in TimeStamps(n)
    /\ hist = [i \in 1..Len(plotter_ecg_data) |->
                  <<plotter_ecg_data[i], plotter_time_data[i]>>]
    /\ running = TRUE
    /\ sim_pc = "sleep"
    /\ sim_value = 0
    /\ sim_time = 0
    /\ clock = IF plotter_time_data = <<>> THEN 0
               ELSE plotter_time_data[Len(plotter_time_data)]
    /\ demo_pc = "show"
    /\ tick_pc = "idle"
    /\ arg_x = <<>>
    /\ line_x = <<>>
    /\ line_y = <<>>
    /\ xlim = <<0, TIME_WINDOW * SAMPLING_RATE>>
    /\ data_array = <<>>
    /\ time_array = <<>>
    /\ heart_rate = NotCalled
    /\ heart_rate_text = <<"--">>
    /\ tick_raised = FALSE

\* update_plot run from start to end while the simulator thread sleeps
EstimatorTick ==
    /\ demo_pc = "show"
    /\ tick_pc = "idle"
    /\ sim_pc = "sleep"
    /\ IF Len(plotter_ecg_data) > 1
       THEN LET current_time == SeqMax(plotter_time_data)
                hr == CalculateHeartRate(plotter_ecg_data, plotter_time_data,
                                         EstMinSamples)
            IN  /\ arg_x' = plotter_time_data
                /\ line_x' = plotter_time_data
                /\ line_y' = plotter_ecg_data
                /\ xlim' = <<Max(0, current_time - TIME_WINDOW * SAMPLING_RATE),
                             current_time + SAMPLING_RATE \div 2>>
                /\ IF Len(plotter_ecg_data) < EstMinSamples
                   THEN UNCHANGED <<data_array, time_array>>
                   ELSE /\ data_array' = plotter_ecg_data
                        /\ time_array' = plotter_time_data
                /\ heart_rate' = hr
                /\ IF hr.kind = "raise"
                   THEN tick_raised' = TRUE /\ UNCHANGED heart_rate_text
                   ELSE heart_rate_text' = HeartRateText(hr) /\ UNCHANGED tick_raised
       ELSE UNCHANGED <<arg_x, line_x, line_y, xlim, data_array, time_array,
                        heart_rate, heart_rate_text, tick_raised>>
    /\ UNCHANGED <<linkVars, receiverVars>>
    /\ UNCHANGED <<maxlen, bufVars, running, simVars, demo_pc, tick_pc>>

EstimatorSpec == EstimatorInit /\ [][EstimatorTick]_vars

\* --------------------------------------- the synthetic waveform, injected
PLOT_WINDOW_SIZE == 1000
WaveHeartRate == 75
HeartRateMinSamples == 100

\* generate_ecg_sample without its noise term, times 100 and rounded, at
\* t_norm = 0/40, 1/40, ..., 39/40 of one period: the P wave (0.1 at 0.15),
\* the QRS complex (1.0 at 0.35) and the T wave (0.3 at 0.7)
WaveformPeriod ==
    << 0, 0, 0, 1, 4, 8, 10, 8, 4, 1, 0, 0, 0, 71, 100, 71, 0, 0, 0, 0,
       0, 0, 0, 11, 16, 21, 26, 29, 30, 29, 26, 21, 16, 11, 0, 0, 0, 0, 0, 0 >>

\* the sample intervals (1 / SAMPLING_RATE s) between two samples taken of the
\* waveform, and the samples taken in TIME_WINDOW seconds
WaveStep == (60 * SAMPLING_RATE) \div (WaveHeartRate * Len(WaveformPeriod))
WaveSamples == (TIME_WINDOW * SAMPLING_RATE) \div WaveStep

\* generate_ecg_sample(t) at t = i * WaveStep sample intervals
GenerateEcgSample(i) == WaveformPeriod[(i % Len(WaveformPeriod)) + 1]

WaveformInit ==
    /\ InitLink
    /\ InitReceiver
    /\ maxlen = PLOT_WINDOW_SIZE
    /\ plotter_ecg_data = <<>>
    /\ plotter_time_data = <<>>
    /\ hist = <<>>
    /\ running = TRUE
    /\ sim_pc = "while"
    /\ sim_value = 0
    /\ sim_time = 0
    /\ clock = 0
    /\ demo_pc = "show"
    /\ tick_pc = "idle"
    /\ arg_x = <<>>
    /\ line_x = <<>>
    /\ line_y = <<>>
    /\ xlim = <<0, TIME_WINDOW * SAMPLING_RATE>>
    /\ data_array = <<>>
    /\ time_array = <<>>
    /\ heart_rate = NotCalled
    /\ heart_rate_text = <<"--">>
    /\ tick_raised = FALSE

\* one turn of simulate_data's loop: the sample for the current time is
\* handed to add_data_point, and the thread sleeps until the next one
WaveInject ==
    /\ sim_pc = "while"
    /\ running
    /\ Len(hist) < WaveSamples
    /\ LET value == GenerateEcgSample(Len(hist))
       IN  /\ sim_value' = value
           /\ sim_time' = clock
           /\ plotter_ecg_data' = DequeAppend(plotter_ecg_data, value, maxlen)
           /\ plotter_time_data' = DequeAppend(plotter_time_data, clock, maxlen)
           /\ hist' = Append(hist, <<value, clock>>)
    /\ clock' = clock + WaveStep
    /\ UNCHANGED <<linkVars, receiverVars>>
    /\ UNCHANGED <<maxlen, running, sim_pc, demo_pc, tickVars>>

\* calculate_heart_rate, called once the TIME_WINDOW seconds are in the buffer
WaveEstimate ==
    /\ Len(hist) = WaveSamples
    /\ heart_rate = NotCalled
    /\ heart_rate' = CalculateHeartRate(plotter_ecg_data, plotter_time_data,
                                        HeartRateMinSamples)
    /\ UNCHANGED <<linkVars, receiverVars>>
    /\ UNCHANGED <<maxlen, bufVars, running, simVars, demo_pc, tick_pc, arg_x, line_x,
                   line_y, xlim, data_array, time_array, heart_rate_text, tick_raised>>

WaveformNext ==
    \/ WaveInject
    \/ WaveEstimate

WaveformSpec == WaveformInit /\ [][WaveformNext]_vars

\* ------------------------------------------------------------ claims
HistValues == [i \in 1..Len(hist) |-> hist[i][1]]
HistTimes == [i \in 1..Len(hist) |-> hist[i][2]]

LastN(s, n) == IF Len(s) <= n THEN s ELSE SubSeq(s, Len(s) - n + 1, Len(s))

NonDecreasing(s) == \A i \in 1..(Len(s) - 1) : s[i] <= s[i + 1]

\* C1: the sample buffer never holds more than its capacity N, and it always
\* holds exactly the last min(M, N) of the M values appended so far, in the
\* order they were appended (the timestamps likewise, once add_data_point has
\* returned): an append at capacity drops the oldest sample and nothing else.
C1_RingBuffer ==
    /\ Len(plotter_ecg_data) <= maxlen
    /\ Len(plotter_time_data) <= maxlen
    /\ plotter_ecg_data = LastN(HistValues, maxlen)
    /\ sim_pc # "append_time" => plotter_time_data = LastN(HistTimes, maxlen)

\* more samples were appended than the buffer holds, and the last
\* add_data_point has returned
C1_Witness ==
    /\ Len(hist) > maxlen
    /\ sim_pc = "sleep"
    /\ Len(plotter_ecg_data) = maxlen
    /\ maxlen > 1

\* the values vs and the timestamps ts are those of consecutive appended samples
Aligned(vs, ts) ==
    /\ Len(vs) = Len(ts)
    /\ \E k \in 0..(Len(hist) - Len(vs)) :
          \A i \in 1..Len(vs) : hist[k + i] = <<vs[i], ts[i]>>

\* C2: every pair of copies a reader takes (the x and y data update_plot hands
\* to set_data, and data_array / time_array of calculate_heart_rate) has equal
\* lengths and pairs the i-th value with the timestamp of the same sample.
C2_NoTornSnapshot ==
    /\ Aligned(line_y, line_x)
    /\ time_array # <<>> => Aligned(data_array, time_array)

\* C3: no copy a reader takes while the producer appends is longer than the
\* capacity, and no copy of the timestamps decreases anywhere.
C3_SnapshotBounded ==
    /\ \A snap \in {arg_x, line_x, line_y, data_array, time_array} : Len(snap) <= maxlen
    /\ \A snap \in {arg_x, line_x, time_array} : NonDecreasing(snap)

\* a copy of a full buffer, taken while the producer is inside add_data_point
\* after the buffer has wrapped
C3_Witness ==
    /\ sim_pc = "append_time"
    /\ tick_pc = "xlim"
    /\ Len(hist) > maxlen
    /\ Len(line_x) = maxlen
    /\ Len(line_y) = maxlen
    /\ maxlen > 1

\* the BLE thread has left the listening loop, torn down and returned, the
\* session having been Streaming
C8_Goal == SessionState = "Stopped" \/ link_hung \/ main_pc = "exited"

\* C8: a Streaming session whose shutdown signal is set or whose transport has
\* disconnected leaves the listening loop, runs teardown and ends Stopped,
\* as long as the BLE thread keeps running (no transport call of the teardown
\* hangs and the process has not exited under it).
C8_StreamingEnds ==
    (SessionState = "Streaming" /\ (stop_event \/ ~is_connected)) ~> C8_Goal

\* C9: once the window has been closed (on_close has set the signal and
\* plt.show has returned) main reaches "Program finished".
C9_MainFinishes ==
    (main_pc = "set_stop" /\ stop_event) ~> (main_pc \in {"finished", "exited"})

\* C4: when discovery returns no record whose name contains the target name
\* (an empty list and records without a name included), no client is created,
\* no device is kept, connect / get_services / start_notify are never called,
\* and connect_and_receive returns False with the session Failed.
C4_NoMatchFails ==
    scan_matched = "no" =>
        /\ link_pc \in {"select", "finally", "done"}
        /\ client = NoClient
        /\ device = NoDevice
        /\ ~connected
        /\ calls.connect = 0
        /\ calls.get_services = 0
        /\ calls.start_notify = 0
        /\ link_pc # "select" => (retval = "False" /\ SessionState = "Failed")

\* discovery found no match and connect_and_receive has returned
C4_Witness ==
    /\ scan_matched = "no"
    /\ link_pc = "done"
    /\ retval = "False"
    /\ calls.teardown = 1

\* a step of notification_handler
HandlerStep == pending # NoData /\ pending' = NoData /\ link_pc' = link_pc

\* the payloads that are an unsigned decimal integer once decoded and
\* stripped, and the integer each stands for: "1" and " 01\n"
UnsignedDecimal(data) == data \in {<<49>>, <<32, 48, 49, 10>>}
UnsignedValue(data) ==
    CASE data = <<49>> -> 1
      [] data = <<32, 48, 49, 10>> -> 1

\* the payloads that are the text of a number, and ten times the number:
\* "1", " 01\n", "-1" and "1.5"
NumericText(data) == data \in {<<49>>, <<32, 48, 49, 10>>, <<45, 49>>, <<49, 46, 53>>}
NumericTimes10(data) ==
    CASE data = <<49>> -> 10
      [] data = <<32, 48, 49, 10>> -> 10
      [] data = <<45, 49>> -> -10
      [] data = <<49, 46, 53>> -> 15

Appended(before, after, v) ==
    after = SubSeq(before, 2, Len(before)) \o <<v>>

HandlerIsQuiet ==
    /\ ~handler_raised'
    /\ UNCHANGED <<sessionVars, stop_event>>

\* C5 as claimed: every payload that is the text of a number appends one sample
\* with that value, every other payload leaves the buffer unchanged, and the
\* handler neither raises nor changes the session.
C5_NumericAppended ==
    [][HandlerStep =>
          /\ IF NumericText(pending)
             THEN \E v \in -1..2 : /\ 10 * v = NumericTimes10(pending)
                                   /\ Appended(ecg_data, ecg_data', v)
             ELSE ecg_data' = ecg_data
          /\ HandlerIsQuiet]_vars

\* C5 as amended: every payload that decodes as UTF-8 and, stripped of
\* surrounding whitespace, is an unsigned decimal integer appends one sample
\* with that integer; every other payload (a negative or fractional number,
\* empty or non-numeric text, undecodable bytes) leaves the buffer unchanged;
\* the handler neither raises nor changes the session.
C5_UnsignedAppended ==
    [][HandlerStep =>
          /\ IF UnsignedDecimal(pending)
             THEN Appended(ecg_data, ecg_data', UnsignedValue(pending))
             ELSE ecg_data' = ecg_data
          /\ HandlerIsQuiet]_vars

\* while Streaming, a sample has been appended to the buffer and a payload
\* that is no number is about to be handled
C5_Witness ==
    /\ link_pc = "sleep"
    /\ ~failed
    /\ ecg_data[Len(ecg_data)] = 1
    /\ ecg_data[1] = 0
    /\ pending = <<255>>

\* C6: no step clears the shutdown signal, and stop_event.set() on a signal
\* that is already set changes nothing but the position of the caller.
C6_StopEventLatched ==
    [][/\ stop_event => stop_event'
       /\ (stop_event /\ stop_sets' # stop_sets) =>
             UNCHANGED <<stop_event, ble_receiver, ecg_data, sessionVars, rxVars,
                         renderVars>>]_vars

\* the window was closed (on_close set the signal) and main has set it again
C6_Witness ==
    /\ stop_sets = 2
    /\ stop_event
    /\ main_pc = "join"

\* C7: with the shutdown signal set, a session that is Scanning, Connecting,
\* Subscribing or Streaming leaves that state only for Disconnecting / Stopped
\* (or Failed, on a transport error); it does not go on to connect, subscribe
\* or stream.
C7_StopObservedEverywhere ==
    [][(/\ stop_event
        /\ SessionState \in {"Scanning", "Connecting", "Subscribing", "Streaming"}
        /\ SessionState' # SessionState)
          => SessionState' \in {"Disconnecting", "Stopped", "Failed"}]_vars

\* the session was Streaming, the signal was set, and the BLE thread has
\* unsubscribed, closed the transport and returned
C8_Witness ==
    /\ SessionState = "Stopped"
    /\ stop_event
    /\ calls.stop_notify = 1
    /\ calls.disconnect = 1
    /\ main_pc # "exited"

\* main has printed "Program finished" while the BLE thread hangs in discovery
C9_Witness ==
    /\ main_pc = "finished"
    /\ stop_sets = 2
    /\ link_hung
    /\ link_pc = "scan"

\* C10: once the session has ended Failed the shutdown signal becomes set, so
\* that the renderer does not go on ticking with the link gone.
C10_FailureSetsStop ==
    (SessionState = "Failed" /\ link_pc = "done") ~> stop_event

\* C11: every frame carries the session's state: a tick that finishes while
\* the session is connected and Streaming shows "Connected" with the latest
\* sample, and a tick that finishes at any other time shows "Disconnected".
C11_FrameShowsSessionState ==
    [][(render_pc = "ylim" /\ render_pc' = "idle") =>
          title' = IF connected /\ SessionState = "Streaming"
                   THEN <<"Connected", ecg_data[Len(ecg_data)]>>
                   ELSE <<"Disconnected">>]_vars

\* the states of main.py's read fallback
PollStates == {"poll", "read", "poll_sleep"}

\* C12 as claimed: a rejected subscription is no failure of the session, and
\* the session that polls goes on polling for as long as the transport stays
\* connected.
C12_PollsWhileConnected ==
    [][/\ (link_pc = "start_notify" /\ link_pc' = "finally") => ~failed'
       /\ (/\ receiver_pc \in PollStates
           /\ receiver_is_connected'
           /\ ~receiver_interrupted') => receiver_pc' \in PollStates]_vars

\* C12 as amended.  main2.py: a rejected subscription ends the session, which
\* returns False.  main.py: a rejected subscription is no failure; the session
\* reads the characteristic while the transport is connected, hands every
\* value read to notification_handler, and leaves the read loop only when the
\* transport is no longer connected, when a read raises, or on Ctrl-C.
C12_FallbackAsCoded ==
    [][/\ (link_pc = "start_notify" /\ link_pc' = "finally") =>
             (failed' /\ retval' = "False")
       /\ (receiver_pc = "start_notify" /\ receiver_pc' = "poll") =>
             (~receiver_failed' /\ receiver_result' = "running")
       /\ (receiver_pc = "poll" /\ receiver_pc' # "poll") =>
             (receiver_pc' = IF receiver_is_connected THEN "read" ELSE "listen")
       /\ (receiver_pc = "read" /\ receiver_pc' = "poll_sleep") =>
             \E data \in Payloads :
                receiver_output' = (IF Utf8Decode(data) = DecodeError
                                    THEN <<"ESP32 Binary", data>>
                                    ELSE <<"ESP32 Data", Utf8Decode(data)>>)
       /\ (receiver_pc \in PollStates /\ receiver_pc' \notin PollStates) =>
             \/ receiver_pc = "poll" /\ ~receiver_is_connected
             \/ receiver_pc = "read" /\ receiver_pc' = "listen"
             \/ receiver_interrupted' /\ receiver_pc' = "finally"]_vars

\* main.py is between two reads of the fallback, the transport connected, the
\* value "1" printed by notification_handler
C12_Witness ==
    /\ receiver_pc = "poll_sleep"
    /\ receiver_polling
    /\ receiver_is_connected
    /\ ~receiver_failed
    /\ receiver_output = <<"ESP32 Data", <<49>>>>

\* C13: in either program discovery and connect are called at most once in a
\* run, and a session that has failed makes no further discovery, connect or
\* subscribe call.
C13_NoRetry ==
    [][/\ calls'.discover <= 1
       /\ calls'.connect <= 1
       /\ receiver_calls'.discover <= 1
       /\ receiver_calls'.connect <= 1
       /\ failed => /\ calls'.discover = calls.discover
                    /\ calls'.connect = calls.connect
                    /\ calls'.start_notify = calls.start_notify
       /\ receiver_failed => /\ receiver_calls'.discover = receiver_calls.discover
                             /\ receiver_calls'.connect = receiver_calls.connect
                             /\ receiver_calls'.start_notify =
                                   receiver_calls.start_notify]_vars

\* main2.py's session has ended Failed on its one connect attempt
C13_Witness ==
    /\ failed
    /\ link_pc = "done"
    /\ calls.discover = 1
    /\ calls.connect = 1
    /\ calls.start_notify = 0

\* the first record, in discovery order, that has a name containing the
\* target name
FirstMatchOf(devs) ==
    LET hits == {i \in 1..Len(devs) :
                    /\ devs[i].name # NoName
                    /\ Contains(devs[i].name, ESP32_DEVICE_NAME)}
    IN  IF hits = {} THEN NoDevice
        ELSE devs[CHOOSE i \in hits : \A j \in hits : i <= j]

\* C19: in either program the device scan_for_esp32 returns is the first
\* record, in discovery order, whose name is present and contains
\* ESP32_DEVICE_NAME, and no device when there is no such record.
C19_FirstMatchWins ==
    [][/\ (link_pc = "select" /\ link_pc' # "select") =>
             device' = FirstMatchOf(devices)
       /\ (receiver_pc = "select" /\ receiver_pc' # "select") =>
             receiver_device' = FirstMatchOf(receiver_devices)]_vars

\* discovery returned several matching records and main2.py is connecting to
\* the one with the second address
C19_Witness ==
    /\ scan_matched = "several"
    /\ link_pc = "connect"
    /\ device.address = "BB:02"
    /\ client = "BB:02"

\* C20: in either program teardown closes the transport only after it has
\* tried to unsubscribe, tries the close whatever unsubscribe did, and lets no
\* error of either call out to the caller of the session.
C20_TeardownContained ==
    /\ calls.disconnect <= calls.stop_notify
    /\ link_pc \in {"client_disconnect", "done"} => calls.disconnect = calls.stop_notify
    /\ retval # "raised"
    /\ receiver_calls.disconnect <= receiver_calls.stop_notify
    /\ receiver_pc \in {"client_disconnect", "done"} =>
          receiver_calls.disconnect = receiver_calls.stop_notify
    /\ receiver_result # "raised"

\* the timestamps of the peaks calculate_heart_rate finds in the buffers
BufferPeaks ==
    PeaksFrom(plotter_ecg_data, plotter_time_data, 2, Len(plotter_ecg_data) - 1)

\* C14: with fewer samples than the minimum the estimator returns no rate,
\* whatever the values and timestamps, and a rate never comes from fewer.
C14_NoRateBelowMinimum ==
    /\ (heart_rate # NotCalled /\ Len(plotter_ecg_data) < EstMinSamples) =>
          heart_rate = NoRate /\ ~tick_raised
    /\ heart_rate.kind = "bpm" => Len(plotter_ecg_data) >= EstMinSamples

C14_Witness ==
    /\ plotter_ecg_data = <<0, 1, 0, 1, 0>>
    /\ plotter_time_data = [i \in 1..5 |-> ClockStep * (i - 1)]
    /\ heart_rate = NoRate

\* C15: a flat signal of any length has no peak, so the estimator returns no
\* rate and the tick shows that none is known.
C15_FlatSignalNoRate ==
    (/\ heart_rate # NotCalled
     /\ \A i \in 1..Len(plotter_ecg_data) : plotter_ecg_data[i] = plotter_ecg_data[1]) =>
        /\ BufferPeaks = <<>>
        /\ heart_rate = NoRate
        /\ ~tick_raised
        /\ heart_rate_text = <<"Calculating">>

C15_Witness ==
    /\ plotter_ecg_data = [i \in 1..EstMinSamples |-> 1]
    /\ plotter_time_data = [i \in 1..EstMinSamples |-> ClockStep * (i - 1)]
    /\ heart_rate = NoRate

\* C16: when the first and the last detected peak carry the same timestamp (or
\* the last an earlier one) the estimator returns no rate and the tick that
\* called it completes.
C16_ZeroIntervalNoRate ==
    (/\ heart_rate # NotCalled
     /\ Len(BufferPeaks) >= 2
     /\ BufferPeaks[Len(BufferPeaks)] <= BufferPeaks[1]) =>
        heart_rate = NoRate /\ ~tick_raised

\* C17: no render tick fails, and a tick that ran the estimator and got no
\* rate shows that the rate is still being calculated.
C17_RenderNeverFails ==
    /\ ~tick_raised
    /\ (heart_rate # NotCalled /\ heart_rate.kind # "bpm") =>
          heart_rate_text = <<"Calculating">>

\* C18: once TIME_WINDOW seconds of the noise-free 75 BPM waveform are in the
\* buffer, the estimator returns a rate between 70 and 80 BPM.
C18_WaveformRateInRange ==
    heart_rate # NotCalled =>
        /\ heart_rate.kind = "bpm"
        /\ heart_rate.bpm \in 70..80

\* the largest integer whose square is at most v
ISqrt(v) == CHOOSE r \in 0..v : r * r <= v /\ (r + 1) * (r + 1) > v

\* x > mean + 0.5 * std, with both sides times 2 * Len(data): the left side
\* is an integer, so it exceeds the root iff it exceeds the root's floor
ExceedsThreshold(data, x) ==
    LET n == Len(data)
        s == SeqSum(data)
    IN  2 * (n * x - s) > ISqrt(n * SeqSum(Squares(data)) - s * s)

\* the interior indices that are strict local maxima above the threshold
StrictMaximaAboveThreshold(data) ==
    {i \in 2..(Len(data) - 1) :
        /\ ExceedsThreshold(data, data[i])
        /\ data[i] > data[i - 1]
        /\ data[i] > data[i + 1]}

\* the elements of a set of indices, in increasing order
InIndexOrder(idx) ==
    CHOOSE f \in [1..Cardinality(idx) -> idx] :
        \A a, b \in 1..Cardinality(idx) : a < b => f[a] < f[b]

Intervals(peaks) == [i \in 1..(Len(peaks) - 1) |-> peaks[i + 1] - peaks[i]]

\* int(60.0 / mean(intervals)), the intervals in sample intervals
RateOfIntervals(iv) == (60 * SAMPLING_RATE * Len(iv)) \div SeqSum(iv)

\* the estimator has examined a snapshot of at least the minimum length
EstimatorRan == heart_rate # NotCalled /\ Len(plotter_ecg_data) >= EstMinSamples

C23_BufferAlwaysFull ==
    /\ Len(ecg_data) = MAX_POINTS
    /\ Len(line_ydata) = MAX_POINTS
    /\ MAX_POINTS \in DOMAIN ecg_data
    /\ ecg_data[Len(ecg_data)] \in Nat

\* the zeros have all been pushed out by samples, and a frame has shown that
C23_Witness ==
    /\ calls.start_notify = 1
    /\ \A i \in 1..MAX_POINTS : ecg_data[i] > 0
    /\ line_ydata = ecg_data
    /\ render_pc = "idle"
    /\ pending = NoData

\* the positions of either coroutine before its finally clause has called
\* disconnect()
BeforeTeardown(pc) == pc \notin {"stop_notify", "client_disconnect", "done"}

\* C24: in either program connect_and_receive calls disconnect() exactly once
\* on every way out, and only from its finally clause; a teardown that finds
\* no client or a transport that is no longer connected issues neither
\* stop_notify nor disconnect on the transport.
C24_TeardownOnce ==
    /\ [](/\ BeforeTeardown(link_pc) => calls.teardown = 0
          /\ ~BeforeTeardown(link_pc) => calls.teardown = 1
          /\ client = NoClient => calls.stop_notify = 0 /\ calls.disconnect = 0
          /\ BeforeTeardown(receiver_pc) => receiver_calls.teardown = 0
          /\ ~BeforeTeardown(receiver_pc) => receiver_calls.teardown = 1
          /\ receiver_client = NoClient =>
                receiver_calls.stop_notify = 0 /\ receiver_calls.disconnect = 0)
    /\ [][/\ (link_pc = "finally" /\ link_pc' # "finally"
                 /\ ~(client # NoClient /\ is_connected)) =>
                /\ link_pc' = "done"
                /\ calls'.stop_notify = calls.stop_notify
                /\ calls'.disconnect = calls.disconnect
          /\ (receiver_pc = "finally" /\ receiver_pc' # "finally"
                 /\ ~(receiver_client # NoClient /\ receiver_is_connected)) =>
                /\ receiver_pc' = "done"
                /\ receiver_calls'.stop_notify = receiver_calls.stop_notify
                /\ receiver_calls'.disconnect = receiver_calls.disconnect]_vars

\* the link was lost while streaming: the session has ended through a teardown
\* that touched the transport no more
C24_Witness ==
    /\ link_pc = "done"
    /\ client # NoClient
    /\ calls.start_notify = 1
    /\ calls.teardown = 1
    /\ calls.stop_notify = 0
    /\ calls.disconnect = 0

\* C25: the connected flag of main2.py's receiver becomes True only when
\* client.connect() has returned with the transport connected, and it is
\* False whenever connect_and_receive has returned, whichever way it ended.
C25_ConnectedFlag ==
    /\ [](/\ link_pc = "done" => ~connected
          /\ connected => calls.connect = 1 /\ client # NoClient)
    /\ [][(~connected /\ connected') =>
             /\ link_pc = "connect"
             /\ is_connected'
             /\ link_pc' = "get_services"]_vars

\* the session was connected and has returned through a teardown whose close
\* call failed, leaving the transport up
C25_Witness ==
    /\ link_pc = "done"
    /\ ~connected
    /\ is_connected
    /\ calls.get_services = 1
    /\ calls.disconnect = 1

\* C26: once main has called stop(), stop() returns: the thread leaves its
\* loop the next time it tests the flag, and join() returns; and once stop()
\* has returned the thread has ended and nothing is appended any more.
C26_StopTerminates ==
    /\ (demo_pc = "stop") ~> (demo_pc = "done")
    /\ [](demo_pc = "done" => sim_pc = "exited" /\ ~running)
    /\ [][/\ (demo_pc \in {"join", "done"} /\ sim_pc = "while" /\ sim_pc' # "while") =>
                sim_pc' = "exited"
          /\ demo_pc = "done" =>
                /\ plotter_ecg_data' = plotter_ecg_data
                /\ plotter_time_data' = plotter_time_data
                /\ hist' = hist]_vars

\* stop() has returned after the thread had produced samples
C26_Witness ==
    /\ demo_pc = "done"
    /\ sim_pc = "exited"
    /\ ~running
    /\ Len(hist) >= 2
    /\ plotter_ecg_data # <<>>

====
